---- MODULE Spec2Model ----
(***************************************************************************)
(* Voice-assistant command dispatcher (src/dispatcher.py): the session     *)
(* state store, the keyword matcher, the execution engine and the dispatch *)
(* orchestrator, as a state machine.                                       *)
(*                                                                         *)
(* Text is a sequence of one-character strings.  A Python float is the     *)
(* IEEE-754 binary64 value it holds, written as the integer count of units *)
(* of 2^-54 split in two limbs <<hi, lo>> of base 2^27 (every score below  *)
(* 8.0 is a whole number of such units).                                   *)
(***************************************************************************)
EXTENDS Integers, Sequences, FiniteSets, TLC

\* ------------------------------------------------------------------------
\* Bounds of the model
\* ------------------------------------------------------------------------
MaxLen == 3        \* longest input text enumerated for the matcher
MaxCmds == 2       \* largest catalog enumerated for the matcher
MaxCalls == 2      \* dispatch calls made in one run of the dispatcher

\* ------------------------------------------------------------------------
\* Text
\* ------------------------------------------------------------------------
Alphabet == {"a", "b", "c", "A"}

\* str.lower() on one character
LowerChar(ch) ==
    CASE ch = "A" -> "a"
      [] ch = "B" -> "b"
      [] ch = "C" -> "c"
      [] OTHER -> ch

\* str.lower()
Lower(s) == [i \in 1..Len(s) |-> LowerChar(s[i])]

\* str.startswith(prefix)
StartsWith(s, prefix) ==
    /\ Len(prefix) <= Len(s)
    /\ SubSeq(s, 1, Len(prefix)) = prefix

\* the `in` operator on two strings: needle occurs in s at some offset
Contains(s, needle) ==
    \E off \in 0..(Len(s) - Len(needle)) :
        SubSeq(s, off + 1, off + Len(needle)) = needle

RECURSIVE StringsOfLen(_)
StringsOfLen(n) ==
    IF n = 0 THEN {<<>>}
    ELSE {Append(s, ch) : s \in StringsOfLen(n - 1), ch \in Alphabet}

\* every text of at most MaxLen characters
Texts == UNION {StringsOfLen(n) : n \in 0..MaxLen}

\* ------------------------------------------------------------------------
\* binary64 arithmetic on the scores
\* ------------------------------------------------------------------------
Limb == 134217728                      \* 2^27

F_0_0 == <<0, 0>>                      \* 0.0
F_0_3 == <<40265318, 53687091>>        \* 0.3 = 5404319552844595 * 2^-54
F_0_5 == <<67108864, 0>>               \* 0.5
F_0_8 == <<107374182, 53687092>>       \* 0.8 = 14411518807585588 * 2^-54
F_1_0 == <<134217728, 0>>              \* 1.0

\* units of 2^-54 between neighbouring doubles in the binade of f
Ulp(f) ==
    IF f[1] < 67108864 THEN 1          \* below 0.5
    ELSE IF f[1] < 134217728 THEN 2    \* [0.5, 1)
    ELSE IF f[1] < 268435456 THEN 4    \* [1, 2)
    ELSE IF f[1] < 536870912 THEN 8    \* [2, 4)
    ELSE 16                            \* [4, 8)

FNorm(hi, lo) ==
    IF lo >= Limb THEN <<hi + 1, lo - Limb>>
    ELSE IF lo < 0 THEN <<hi - 1, lo + Limb>>
    ELSE <<hi, lo>>

\* round an exact result to the nearest double, ties to even
FRound(f) ==
    LET g == Ulp(f)
        r == f[2] % g
        q == f[2] \div g
        up == (2 * r > g) \/ (2 * r = g /\ q % 2 = 1)
    IN  IF r = 0 THEN f
        ELSE IF up THEN FNorm(f[1], f[2] + (g - r))
        ELSE <<f[1], f[2] - r>>

\* a < b
FLess(a, b) == a[1] < b[1] \/ (a[1] = b[1] /\ a[2] < b[2])

\* a + b
FAdd(a, b) == FRound(FNorm(a[1] + b[1], a[2] + b[2]))

\* abs(a - b)
FAbsDiff(a, b) ==
    LET x == IF FLess(a, b) THEN b ELSE a
        y == IF FLess(a, b) THEN a ELSE b
    IN  FRound(FNorm(x[1] - y[1], x[2] - y[2]))

\* ------------------------------------------------------------------------
\* Enumerations and the command catalog
\* ------------------------------------------------------------------------
\* AssistantMode
Modes == {"general", "coding", "study", "streaming"}

\* ExecutionEnvironment
Environments == {"python", "ahk", "java", "nodejs", "system"}

\* Command.args as loaded from the registry document: a list (iterable,
\* with its items), or a scalar the YAML put there (not iterable, truthy)
ArgList(items) == [iterable |-> TRUE, items |-> items]
ArgScalar == [iterable |-> FALSE, items |-> <<>>]

\* Command records of the registry document that the runs draw catalogs from
CommandPool == <<
    [key |-> "alpha", name |-> "Alpha", keywords |-> << <<"a">> >>,
     environment |-> "python", args |-> ArgList(<<>>), modes |-> {},
     requires_confirmation |-> FALSE, ai_parsing |-> TRUE],
    [key |-> "beta", name |-> "Beta", keywords |-> << <<"b">> >>,
     environment |-> "python", args |-> ArgList(<<>>), modes |-> {"coding"},
     requires_confirmation |-> FALSE, ai_parsing |-> FALSE],
    [key |-> "gamma", name |-> "Gamma",
     keywords |-> << <<"a", "b", "c">>, <<"a">>, <<"b">> >>,
     environment |-> "python", args |-> ArgList(<<>>),
     modes |-> {"study", "streaming"},
     requires_confirmation |-> FALSE, ai_parsing |-> FALSE],
    [key |-> "delta", name |-> "Delta",
     keywords |-> << <<"a", "b", "c">>, <<"b">>, <<"c">> >>,
     environment |-> "java", args |-> ArgList(<<>>), modes |-> {"study"},
     requires_confirmation |-> FALSE, ai_parsing |-> TRUE],
    [key |-> "eps", name |-> "Eps", keywords |-> << <<"A", "b">>, <<"b">> >>,
     environment |-> "ahk", args |-> ArgList(<<>>),
     modes |-> {"general", "study", "streaming"},
     requires_confirmation |-> FALSE, ai_parsing |-> FALSE],
    [key |-> "zeta", name |-> "Zeta",
     keywords |-> << <<"a", "b", "c">>, <<"a">>, <<"c">> >>,
     environment |-> "system", args |-> ArgList(<<"-v">>),
     modes |-> {"streaming"},
     requires_confirmation |-> TRUE, ai_parsing |-> FALSE],
    [key |-> "eta", name |-> "Eta", keywords |-> << <<"c">> >>,
     environment |-> "nodejs", args |-> ArgScalar, modes |-> {"coding"},
     requires_confirmation |-> FALSE, ai_parsing |-> FALSE]
>>

\* ------------------------------------------------------------------------
\* CommandRegistry.find_matches
\* ------------------------------------------------------------------------
\* the loop body with the keyword compared as written, not lower-cased
KeywordStepAsWritten(score, keyword, user_input_lower) ==
    IF Contains(user_input_lower, keyword)
    THEN IF keyword = user_input_lower THEN FAdd(score, F_1_0)
         ELSE IF StartsWith(user_input_lower, keyword)
              THEN FAdd(score, F_0_8)
              ELSE FAdd(score, F_0_5)
    ELSE score

\* one pass of the keyword loop body: the score after looking at keyword
KeywordStep(score, keyword, user_input_lower) ==
    IF Contains(user_input_lower, Lower(keyword))
    THEN IF Lower(keyword) = user_input_lower THEN FAdd(score, F_1_0)
         ELSE IF StartsWith(user_input_lower, Lower(keyword))
              THEN FAdd(score, F_0_8)
              ELSE FAdd(score, F_0_5)
    ELSE score

\* the keyword loop: score accumulated over keywords[1..n]
RECURSIVE ScoreUpTo(_, _, _)
ScoreUpTo(keywords, n, user_input_lower) ==
    IF n = 0 THEN F_0_0
    ELSE KeywordStep(ScoreUpTo(keywords, n - 1, user_input_lower),
                     keywords[n], user_input_lower)

Score(cmd, user_input) ==
    ScoreUpTo(cmd.keywords, Len(cmd.keywords), Lower(user_input))

\* the mode test without `cmd.modes and`: an empty mode set offers nothing
SupportsModeListedOnly(cmd, mode) == mode \in cmd.modes

\* `if cmd.modes and current_mode not in cmd.modes: continue`
SupportsMode(cmd, mode) == cmd.modes = {} \/ mode \in cmd.modes

\* the command loop with `if score >= 0` for `if score > 0`
RECURSIVE MatchesUpToAnyScore(_, _, _, _)
MatchesUpToAnyScore(commands, n, user_input, mode) ==
    IF n = 0 THEN <<>>
    ELSE LET prev == MatchesUpToAnyScore(commands, n - 1, user_input, mode)
             cmd == commands[n]
             score == Score(cmd, user_input)
         IN  IF SupportsMode(cmd, mode) /\ ~FLess(score, F_0_0)
             THEN Append(prev, [cmd |-> n, score |-> score])
             ELSE prev

\* the command loop: (cmd, score) pairs appended for commands[1..n]; cmd is
\* the reference to the Command object, its position in the catalog
RECURSIVE MatchesUpTo(_, _, _, _)
MatchesUpTo(commands, n, user_input, mode) ==
    IF n = 0 THEN <<>>
    ELSE LET prev == MatchesUpTo(commands, n - 1, user_input, mode)
             cmd == commands[n]
             score == Score(cmd, user_input)
         IN  IF SupportsMode(cmd, mode) /\ FLess(F_0_0, score)
             THEN Append(prev, [cmd |-> n, score |-> score])
             ELSE prev

\* a descending sort that puts the later of two equal scores first
RECURSIVE InsertDescUnstable(_, _)
InsertDescUnstable(sorted, m) ==
    IF sorted = <<>> THEN <<m>>
    ELSE IF ~FLess(m.score, Head(sorted).score)
         THEN <<m>> \o sorted
         ELSE <<Head(sorted)>> \o InsertDescUnstable(Tail(sorted), m)

\* the sort without reverse=True: stable, ascending
RECURSIVE InsertAsc(_, _)
InsertAsc(sorted, m) ==
    IF sorted = <<>> THEN <<m>>
    ELSE IF FLess(m.score, Head(sorted).score)
         THEN <<m>> \o sorted
         ELSE <<Head(sorted)>> \o InsertAsc(Tail(sorted), m)

\* list.sort(key=score, reverse=True): stable, descending
RECURSIVE InsertDesc(_, _)
InsertDesc(sorted, m) ==
    IF sorted = <<>> THEN <<m>>
    ELSE IF FLess(Head(sorted).score, m.score)
         THEN <<m>> \o sorted
         ELSE <<Head(sorted)>> \o InsertDesc(Tail(sorted), m)

RECURSIVE SortDesc(_, _)
SortDesc(matches, n) ==
    IF n = 0 THEN <<>>
    ELSE InsertDesc(SortDesc(matches, n - 1), matches[n])

find_matches(commands, user_input, mode) ==
    LET matches == MatchesUpTo(commands, Len(commands), user_input, mode)
    IN  SortDesc(matches, Len(matches))

\* ------------------------------------------------------------------------
\* CommandResult and the execution engine
\* ------------------------------------------------------------------------
\* Optional[...]: None is <<>>, a value v is <<v>>
None == <<>>
Some(v) == <<v>>

CommandResult(success, output, error) ==
    [success |-> success, output |-> output, error |-> error]

\* str.strip()
IsSpace(ch) == ch \in {" ", "\n", "\t"}

RECURSIVE LStrip(_)
LStrip(s) ==
    IF s # <<>> /\ IsSpace(Head(s)) THEN LStrip(Tail(s)) ELSE s

RECURSIVE RStrip(_)
RStrip(s) ==
    IF s # <<>> /\ IsSpace(s[Len(s)])
    THEN RStrip(SubSeq(s, 1, Len(s) - 1)) ELSE s

Strip(s) == RStrip(LStrip(s))

\* what the operating system can make of one launch: the spawn raises, the
\* child exits with a return code and its two streams, or stdout holds
\* bytes that do not decode
Stdouts == {<<>>, <<" ", "o", "k", "\n">>}
Stderrs == {<<>>, <<"b", "a", "d", "\n">>}
Launches ==
    {[kind |-> "spawn_error", returncode |-> 0, stdout |-> <<>>,
      stderr |-> <<>>],
     [kind |-> "decode_error", returncode |-> 0, stdout |-> <<>>,
      stderr |-> <<>>]}
    \cup {[kind |-> "exit", returncode |-> rc, stdout |-> out, stderr |-> err] :
             rc \in {0, 1}, out \in Stdouts, err \in Stderrs}

\* the launches the dispatcher runs are made with
DispatchLaunches ==
    {l \in Launches : l.kind = "spawn_error"
                      \/ (l.kind = "exit" /\ l.stdout # <<>>
                                           /\ l.stderr # <<>>)}

\* str(e) of the exceptions raised
SpawnErrorText == <<"[Errno 2] No such file or directory">>
DecodeErrorText == <<"'utf-8' codec can't decode byte">>
TypeErrorText == <<"'int' object is not iterable">>
ConcatErrorText == <<"can only concatenate list (not \"int\") to list">>

\* a call either returns a CommandResult or raises an exception
Return(result) == [raised |-> FALSE, result |-> result, exc |-> <<>>]
Raise(text) ==
    [raised |-> TRUE, result |-> CommandResult(FALSE, <<>>, None),
     exc |-> text]

\* the try block without the test of the return code
SpawnAndCommunicateAnyCode(launch) ==
    IF launch.kind = "spawn_error"
    THEN Return(CommandResult(FALSE, <<>>, Some(SpawnErrorText)))
    ELSE IF launch.kind = "decode_error"
    THEN Return(CommandResult(FALSE, <<>>, Some(DecodeErrorText)))
    ELSE Return(CommandResult(TRUE, Strip(launch.stdout), None))

\* the try block shared by the five _execute_* methods: spawn, communicate,
\* map the return code; `except Exception` turns a raise into a result
SpawnAndCommunicate(launch) ==
    IF launch.kind = "spawn_error"
    THEN Return(CommandResult(FALSE, <<>>, Some(SpawnErrorText)))
    ELSE IF launch.kind = "decode_error"
    THEN Return(CommandResult(FALSE, <<>>, Some(DecodeErrorText)))
    ELSE IF launch.returncode = 0
    THEN Return(CommandResult(TRUE, Strip(launch.stdout), None))
    ELSE Return(CommandResult(FALSE, Strip(launch.stdout),
                              Some(Strip(launch.stderr))))

\* `if command.args: args.extend(command.args)` ahead of the try block
ExtendRaises(command) == ~command.args.iterable

_execute_python(command, parsed_args, launch) ==
    IF ExtendRaises(command) THEN Raise(TypeErrorText)
    ELSE SpawnAndCommunicate(launch)

_execute_ahk(command, parsed_args, launch) ==
    IF ExtendRaises(command) THEN Raise(TypeErrorText)
    ELSE SpawnAndCommunicate(launch)

_execute_java(command, parsed_args, launch) ==
    IF ExtendRaises(command) THEN Raise(TypeErrorText)
    ELSE SpawnAndCommunicate(launch)

_execute_nodejs(command, parsed_args, launch) ==
    IF ExtendRaises(command) THEN Raise(TypeErrorText)
    ELSE SpawnAndCommunicate(launch)

\* here the argument vector is built inside the try block
_execute_system(command, parsed_args, launch) ==
    IF ~command.args.iterable
    THEN Return(CommandResult(FALSE, <<>>, Some(ConcatErrorText)))
    ELSE SpawnAndCommunicate(launch)

\* the environment switch of execute_command
ExecuteByEnvironment(command, parsed_args, launch) ==
    CASE command.environment = "python" ->
             _execute_python(command, parsed_args, launch)
      [] command.environment = "ahk" ->
             _execute_ahk(command, parsed_args, launch)
      [] command.environment = "java" ->
             _execute_java(command, parsed_args, launch)
      [] command.environment = "nodejs" ->
             _execute_nodejs(command, parsed_args, launch)
      [] command.environment = "system" ->
             _execute_system(command, parsed_args, launch)
      [] OTHER ->
             Return(CommandResult(FALSE, <<>>,
                                  Some(<<"Unsupported execution environment">>)))

\* execute_command without its `except Exception`
execute_command_uncaught(command, parsed_args, launch) ==
    ExecuteByEnvironment(command, parsed_args, launch)

\* execute_command: the switch under `try`, `except Exception` below it
execute_command(command, parsed_args, launch) ==
    LET r == ExecuteByEnvironment(command, parsed_args, launch)
    IN  IF r.raised
        THEN Return(CommandResult(FALSE, <<>>, Some(r.exc)))
        ELSE r

\* The lists an _execute_* method has at hand while it builds the argument
\* vector: the vector itself, a list of its own bound to the local `args`,
\* and the list held by command.args
ExecutablePath == <<"exe">>
JsonDumps(d) ==
    <<"{\"raw_input\": \"">> \o d.raw_input
        \o <<"\", \"command_key\": \"", d.command_key, "\"}">>
ScriptPath == <<"script">>
NewVector(command, first) == [vector |-> first, held |-> command.args]

\* args.extend(more) when `args` is the list held by the command
ExtendAliased(lists, more) ==
    [lists EXCEPT !.vector = @ \o more, !.held.items = @ \o more]

\* args.extend(more): the vector grows, the list read from does not
Extend(lists, more) == [lists EXCEPT !.vector = @ \o more]

\* `if command.args: args.extend(command.args)`; extend() of a scalar raises
\* before anything is added
ExtendWithDeclared(lists, command) ==
    IF command.args.iterable /\ command.args.items # <<>>
    THEN Extend(lists, command.args.items)
    ELSE lists

\* the lists when the argument vector of the command's environment is built
BuildVector(command, parsed_args) ==
    CASE command.environment = "python" ->
             LET declared == ExtendWithDeclared(
                     NewVector(command, <<ExecutablePath, ScriptPath>>),
                     command)
             IN  IF command.args.iterable /\ parsed_args # None
                 THEN Extend(declared,
                             <<"--parsed-args", JsonDumps(parsed_args[1])>>)
                 ELSE declared
      [] command.environment \in {"ahk", "java", "nodejs"} ->
             ExtendWithDeclared(
                 NewVector(command, <<ExecutablePath, ScriptPath>>), command)
      [] command.environment = "system" ->
             \* script_path.split() + (command.args or []): a new list
             IF command.args.iterable
             THEN NewVector(command, <<ScriptPath>> \o command.args.items)
             ELSE NewVector(command, <<>>)
      [] OTHER -> NewVector(command, <<>>)

\* the Command object after an _execute_* method has run on it
CommandAfter(command, parsed_args) ==
    [command EXCEPT !.args = BuildVector(command, parsed_args).held]

\* ------------------------------------------------------------------------
\* AIParser
\* ------------------------------------------------------------------------
parse_command(user_input, command) ==
    [raw_input |-> user_input, command_key |-> command.key]

RECURSIVE JoinNames(_)
JoinNames(cmds) ==
    IF cmds = <<>> THEN <<>>
    ELSE IF Len(cmds) = 1 THEN <<cmds[1].name>>
    ELSE <<cmds[1].name, ", ">> \o JoinNames(Tail(cmds))

clarify_command(user_input, possible_commands) ==
    IF Len(possible_commands) > 1
    THEN <<"I found multiple possible commands: ">>
         \o JoinNames(possible_commands)
         \o <<". Which one did you mean?">>
    ELSE <<"I'm not sure what you mean. Could you be more specific?">>

\* ------------------------------------------------------------------------
\* StateManager
\* ------------------------------------------------------------------------
VARIABLES
    commands,     \* CommandRegistry.commands, in insertion order
    state,        \* StateManager.state, the session document in memory
    disk,         \* the session document file
    writable,     \* whether open(state_file, 'w') succeeds in this run
    clock,        \* datetime.now()
    calls,        \* the dispatch() coroutines: position and local variables
    finished,     \* the frame of the dispatch() that ended last, as it ended
    loaded,       \* number of history entries found in the file at start
    appended,     \* the entries add_to_history has appended, in order
    matched,      \* the last find_matches call made directly: arguments, result
    listed,       \* the last get_available_commands call: argument, result
    executed,     \* the last execute_command call made directly
    hung,         \* the calls whose child process never exits
    startup,      \* how the construction went: the file found, the exception
    registry,     \* the CommandRegistry being built: file, progress, outcome
    answered      \* the last get_command_history or get_stats call: result

vars == <<commands, state, disk, writable, clock, calls, finished, loaded,
          appended, matched, listed, executed, hung, startup, registry,
          answered>>

\* the variables the dispatcher never writes
aside == <<commands, writable, loaded, matched, listed, executed, hung,
           startup, registry, answered>>
beside == <<writable, loaded, matched, listed, executed, hung, startup,
            registry, answered>>

HistoryLimit == 50     \* history[-50:]
OutputLimit == 200     \* result.output[:200]

\* history lengths found in the session file at start
PrefillLens == {HistoryLimit - 1, HistoryLimit}

\* the entries an earlier session left in the file
Prefill(n) ==
    [i \in 1..n |->
        [timestamp |-> i - n - 1, command |-> "alpha", input |-> <<"a">>,
         success |-> (i % 2 = 0), output |-> Some(<<"o", "k">>)]]

\* the dictionary built in the except branch of _load_state
DefaultState(now) ==
    [current_mode |-> "general", last_commands |-> <<>>,
     user_preferences |-> <<>>, aliases |-> <<>>, session_start |-> now]

\* a session document in the file
StoredDoc(mode, n) ==
    [kind |-> "doc",
     doc |-> [current_mode |-> mode, last_commands |-> Prefill(n),
              user_preferences |-> <<>>, aliases |-> <<>>,
              session_start |-> 0 - n - 1]]

\* the file as found at start: absent, not JSON, or a document whose mode
\* is any string
StoredModes == Modes \cup {"gaming"}
InitialDisks ==
    {[kind |-> k, doc |-> DefaultState(0)] : k \in {"missing", "corrupt"}}
    \cup {StoredDoc(m, 0) : m \in StoredModes}

\* the file a long session left behind
FilledDisks == {StoredDoc("general", n) : n \in PrefillLens}

\* the file holds a document or JSON text that does not parse
\* (JSONDecodeError), or is absent (FileNotFoundError)
_load_state(file, now) ==
    IF file.kind = "doc" THEN file.doc ELSE DefaultState(now)

\* the exception that leaves _load_state: the except clause names
\* FileNotFoundError and JSONDecodeError only, and bytes that are not UTF-8
\* text raise UnicodeDecodeError in json.load
LoadError(file) ==
    IF file.kind = "undecodable" THEN Some(<<"UnicodeDecodeError">>) ELSE None

\* the construction of the dispatcher on a file: what was found, what raised
Constructed(file) == [opened |-> file.kind, error |-> LoadError(file)]

\* self.state when __init__ did not get to assign it
NoState == [DefaultState(0) EXCEPT !.current_mode = "unset"]

\* seq[-n:]
LastN(seq, n) ==
    IF Len(seq) <= n THEN seq ELSE SubSeq(seq, Len(seq) - n + 1, Len(seq))

\* seq[:n]
FirstN(seq, n) == IF Len(seq) <= n THEN seq ELSE SubSeq(seq, 1, n)

\* the entry with the input text lower-cased, as the matcher sees it
HistoryEntryLowered(now, command_key, input_text, result) ==
    [timestamp |-> now, command |-> command_key, input |-> Lower(input_text),
     success |-> result.success,
     output |-> IF result.output # <<>>
                THEN Some(FirstN(result.output, OutputLimit)) ELSE None]

\* the entry with the output stored whole
HistoryEntryUntruncated(now, command_key, input_text, result) ==
    [timestamp |-> now, command |-> command_key, input |-> input_text,
     success |-> result.success,
     output |-> IF result.output # <<>> THEN Some(result.output) ELSE None]

\* the dictionary appended by add_to_history
HistoryEntry(now, command_key, input_text, result) ==
    [timestamp |-> now, command |-> command_key, input |-> input_text,
     success |-> result.success,
     output |-> IF result.output # <<>>
                THEN Some(FirstN(result.output, OutputLimit)) ELSE None]

\* add_to_history with history.insert(0, ...) for history.append(...)
add_to_history_at_front(st, now, command_key, input_text, result) ==
    LET history == <<HistoryEntry(now, command_key, input_text, result)>>
                       \o st.last_commands
    IN  [st EXCEPT !.last_commands = LastN(history, HistoryLimit)]

\* add_to_history with history[:50] for history[-50:]
add_to_history_keep_first(st, now, command_key, input_text, result) ==
    LET history == Append(st.last_commands,
                          HistoryEntry(now, command_key, input_text, result))
    IN  [st EXCEPT !.last_commands = FirstN(history, HistoryLimit)]

\* add_to_history up to save_state: the new value of self.state
add_to_history(st, now, command_key, input_text, result) ==
    LET history == Append(st.last_commands,
                          HistoryEntry(now, command_key, input_text, result))
    IN  [st EXCEPT !.last_commands = LastN(history, HistoryLimit)]

\* save_state: the file after the call; open() raises on a file that cannot
\* be written, leaving it as it is
save_state(st, file, ok) ==
    IF ok THEN [kind |-> "doc", doc |-> st] ELSE file

\* ------------------------------------------------------------------------
\* VoiceAssistantDispatcher
\* ------------------------------------------------------------------------
CallIds == 1..MaxCalls

\* texts spoken to dispatch()
Utterances ==
    {<<>>, <<"A", "b", "c">>, <<"c">>}

IdleCall ==
    [pc |-> "idle", user_input |-> <<>>, mode |-> "none", matches |-> <<>>,
     command |-> None, parsed_args |-> None, executions |-> 0,
     launch |-> None, result |-> None, raised |-> None]

\* the frame is gone once dispatch() has returned or raised
DoneCall == [IdleCall EXCEPT !.pc = "done"]

NoMatchResult ==
    CommandResult(FALSE, <<"No matching commands found">>,
        Some(<<"Try saying 'help' or be more specific about what you want to do.">>))

\* [m[0] for m in matches], the slice forgotten
TopCommandsUnsliced(cmds, matches) ==
    [i \in 1..Len(matches) |-> cmds[matches[i].cmd]]

\* [m[0] for m in matches[:3]]
TopCommands(cmds, matches) ==
    [i \in 1..Len(FirstN(matches, 3)) |-> cmds[matches[i].cmd]]

\* `len(matches) > 1 and abs(matches[0][1] - matches[1][1]) < 0.3`
NeedsClarification(matches) ==
    /\ Len(matches) > 1
    /\ FLess(FAbsDiff(matches[1].score, matches[2].score), F_0_3)

NoQuery ==
    [user_input |-> <<>>, mode |-> "none", matches |-> <<>>, done |-> FALSE]
NoListing ==
    [mode |-> None, commands |-> <<>>, raised |-> None, done |-> FALSE]
NoExecution ==
    [command |-> 0, parsed_args |-> None, launch |-> None, outcome |-> None]

\* no get_command_history or get_stats call has been made
NoAnswer == [op |-> "none", limit |-> 0, answer |-> None]

\* the registry of the runs that are handed their catalog: no file is read
NoRegistryFile == [kind |-> "missing", records |-> <<>>]
GivenRegistry ==
    [opened |-> NoRegistryFile, file |-> NoRegistryFile, pc |-> "given",
     next |-> 1, commands |-> <<>>, error |-> None]

\* the dispatcher runs: the whole pool as catalog, any session file
Init ==
    /\ commands = CommandPool
    /\ disk \in InitialDisks
    /\ writable \in BOOLEAN
    /\ clock = 1
    /\ state = _load_state(disk, 0)
    /\ calls = [c \in CallIds |-> IdleCall]
    /\ finished = IdleCall
    /\ loaded = Len(state.last_commands)
    /\ appended = <<>>
    /\ matched = NoQuery
    /\ listed = NoListing
    /\ executed = NoExecution
    /\ hung = {}
    /\ startup = Constructed(disk)
    /\ registry = GivenRegistry
    /\ answered = NoAnswer

\* the dispatcher runs that start on a long history
InitHistory ==
    /\ commands = CommandPool
    /\ disk \in FilledDisks
    /\ writable \in BOOLEAN
    /\ clock = 1
    /\ state = _load_state(disk, 0)
    /\ calls = [c \in CallIds |-> IdleCall]
    /\ finished = IdleCall
    /\ loaded = Len(state.last_commands)
    /\ appended = <<>>
    /\ matched = NoQuery
    /\ listed = NoListing
    /\ executed = NoExecution
    /\ hung = {}
    /\ startup = Constructed(disk)
    /\ registry = GivenRegistry
    /\ answered = NoAnswer

\* dispatch() that waits for a yes or no before a command flagged
\* requires_confirmation is run
DispatchStartConfirming(c, user_input) ==
    /\ calls[c].pc = "idle"
    /\ \A earlier \in 1..(c - 1) : calls[earlier].pc # "idle"
    /\ LET call == [calls[c] EXCEPT !.user_input = user_input]
           matches == find_matches(commands, user_input, state.current_mode)
           found == [call EXCEPT !.mode = state.current_mode,
                                 !.matches = matches]
           command == matches[1].cmd
       IN  IF state.current_mode \notin Modes
           THEN \* AssistantMode(...) raises ValueError
                /\ finished' = [call EXCEPT !.pc = "raised",
                                            !.raised = Some(<<"ValueError">>)]
                /\ calls' = [calls EXCEPT ![c] = DoneCall]
           ELSE IF matches = <<>>
           THEN /\ finished' = [found EXCEPT !.pc = "returned",
                                             !.result = Some(NoMatchResult)]
                /\ calls' = [calls EXCEPT ![c] = DoneCall]
           ELSE IF NeedsClarification(matches)
           THEN /\ finished' =
                       [found EXCEPT !.pc = "returned",
                           !.result = Some(CommandResult(FALSE,
                               clarify_command(user_input,
                                   TopCommands(commands, matches)),
                               Some(<<"Command needs clarification">>)))]
                /\ calls' = [calls EXCEPT ![c] = DoneCall]
           ELSE IF commands[command].requires_confirmation
           THEN /\ calls' = [calls EXCEPT ![c] =
                        [found EXCEPT !.pc = "confirm",
                                      !.command = Some(command)]]
                /\ UNCHANGED finished
           ELSE IF commands[command].ai_parsing
           THEN /\ calls' = [calls EXCEPT ![c] =
                        [found EXCEPT !.pc = "extract",
                                      !.command = Some(command)]]
                /\ UNCHANGED finished
           ELSE /\ calls' = [calls EXCEPT ![c] =
                        [found EXCEPT !.pc = "execute",
                                      !.command = Some(command),
                                      !.executions = @ + 1]]
                /\ UNCHANGED finished
    /\ UNCHANGED <<state, disk, clock, appended, aside>>

\* dispatch() from its first line to its first suspension or its return
DispatchStart(c, user_input) ==
    /\ calls[c].pc = "idle"
    /\ \A earlier \in 1..(c - 1) : calls[earlier].pc # "idle"
    /\ LET call == [calls[c] EXCEPT !.user_input = user_input]
           matches == find_matches(commands, user_input, state.current_mode)
           found == [call EXCEPT !.mode = state.current_mode,
                                 !.matches = matches]
           command == matches[1].cmd
       IN  IF state.current_mode \notin Modes
           THEN \* AssistantMode(...) raises ValueError
                /\ finished' = [call EXCEPT !.pc = "raised",
                                            !.raised = Some(<<"ValueError">>)]
                /\ calls' = [calls EXCEPT ![c] = DoneCall]
           ELSE IF matches = <<>>
           THEN /\ finished' = [found EXCEPT !.pc = "returned",
                                             !.result = Some(NoMatchResult)]
                /\ calls' = [calls EXCEPT ![c] = DoneCall]
           ELSE IF NeedsClarification(matches)
           THEN /\ finished' =
                       [found EXCEPT !.pc = "returned",
                           !.result = Some(CommandResult(FALSE,
                               clarify_command(user_input,
                                   TopCommands(commands, matches)),
                               Some(<<"Command needs clarification">>)))]
                /\ calls' = [calls EXCEPT ![c] = DoneCall]
           ELSE IF commands[command].ai_parsing
           THEN /\ calls' = [calls EXCEPT ![c] =
                        [found EXCEPT !.pc = "extract",
                                      !.command = Some(command)]]
                /\ UNCHANGED finished
           ELSE /\ calls' = [calls EXCEPT ![c] =
                        [found EXCEPT !.pc = "execute",
                                      !.command = Some(command),
                                      !.executions = @ + 1]]
                /\ UNCHANGED finished
    /\ UNCHANGED <<state, disk, clock, appended, aside>>

\* the result of parse_command is dropped on the way to execute_command
ExtractDoneDiscarding(c) ==
    /\ calls[c].pc = "extract"
    /\ calls' = [calls EXCEPT ![c] =
           [@ EXCEPT !.pc = "execute", !.executions = @ + 1]]
    /\ UNCHANGED <<state, disk, clock, finished, appended, aside>>

\* parse_command returns; execute_command is entered and spawns the child
ExtractDone(c) ==
    /\ calls[c].pc = "extract"
    /\ calls' = [calls EXCEPT ![c] =
           [@ EXCEPT !.pc = "execute",
                     !.parsed_args = Some(parse_command(calls[c].user_input,
                                        commands[calls[c].command[1]])),
                     !.executions = @ + 1]]
    /\ UNCHANGED <<state, disk, clock, finished, appended, aside>>

\* the catalog once execute_command has run for call c: the Command object
\* is the one held by the registry
CatalogAfter(c) ==
    [commands EXCEPT ![calls[c].command[1]] =
        CommandAfter(@, calls[c].parsed_args)]

\* the wait for the child is given up: the call goes on as if it had exited
ExecuteDoneTimeout(c, launch) ==
    /\ calls[c].pc = "execute"
    /\ LET command == commands[calls[c].command[1]]
           r == execute_command(command, calls[c].parsed_args, launch)
           call == [calls[c] EXCEPT !.launch = Some(launch)]
       IN  /\ state' = add_to_history(state, clock, command.key,
                                      calls[c].user_input, r.result)
           /\ appended' = Append(appended,
                                 HistoryEntry(clock, command.key,
                                              calls[c].user_input,
                                              r.result))
           /\ clock' = clock + 1
           /\ disk' = save_state(state', disk, writable)
           /\ finished' =
                  IF writable
                  THEN [call EXCEPT !.pc = "returned",
                                    !.result = Some(r.result)]
                  ELSE [call EXCEPT !.pc = "raised",
                                    !.raised = Some(<<"OSError">>)]
    /\ calls' = [calls EXCEPT ![c] = DoneCall]
    /\ commands' = CatalogAfter(c)
    /\ UNCHANGED beside

\* the history is read when the session is opened and written back, with
\* the new entry, when the child is done
ExecuteDoneStale(c, launch) ==
    /\ calls[c].pc = "execute"
    /\ c \notin hung
    /\ LET command == commands[calls[c].command[1]]
           r == execute_command(command, calls[c].parsed_args, launch)
           call == [calls[c] EXCEPT !.launch = Some(launch)]
           stale == [state EXCEPT
                        !.last_commands = SubSeq(@, 1, loaded)]
       IN  /\ state' = add_to_history(stale, clock, command.key,
                                      calls[c].user_input, r.result)
           /\ appended' = Append(appended,
                                 HistoryEntry(clock, command.key,
                                              calls[c].user_input,
                                              r.result))
           /\ clock' = clock + 1
           /\ disk' = save_state(state', disk, writable)
           /\ finished' =
                  IF writable
                  THEN [call EXCEPT !.pc = "returned",
                                    !.result = Some(r.result)]
                  ELSE [call EXCEPT !.pc = "raised",
                                    !.raised = Some(<<"OSError">>)]
    /\ calls' = [calls EXCEPT ![c] = DoneCall]
    /\ commands' = CatalogAfter(c)
    /\ UNCHANGED beside

\* a failed execution is tried once more before it is recorded
ExecuteDoneRetrying(c, launch) ==
    /\ calls[c].pc = "execute"
    /\ c \notin hung
    /\ LET command == commands[calls[c].command[1]]
           r == execute_command(command, calls[c].parsed_args, launch)
           call == [calls[c] EXCEPT !.launch = Some(launch)]
       IN  IF ~r.raised /\ ~r.result.success /\ calls[c].executions < 2
           THEN /\ calls' = [calls EXCEPT ![c] =
                        [call EXCEPT !.executions = @ + 1]]
                /\ UNCHANGED <<state, disk, clock, finished, appended>>
           ELSE /\ state' = add_to_history(state, clock, command.key,
                                           calls[c].user_input, r.result)
                /\ appended' = Append(appended,
                                      HistoryEntry(clock, command.key,
                                                   calls[c].user_input,
                                                   r.result))
                /\ clock' = clock + 1
                /\ disk' = save_state(state', disk, writable)
                /\ finished' =
                       IF writable
                       THEN [call EXCEPT !.pc = "returned",
                                         !.result = Some(r.result)]
                       ELSE [call EXCEPT !.pc = "raised",
                                         !.raised = Some(<<"OSError">>)]
                /\ calls' = [calls EXCEPT ![c] = DoneCall]
    /\ commands' = CatalogAfter(c)
    /\ UNCHANGED beside

\* the command is looked up again, in the mode current when the child is
\* done, before it is run and recorded
ExecuteDoneReselecting(c, launch) ==
    /\ calls[c].pc = "execute"
    /\ c \notin hung
    /\ LET again == IF state.current_mode \in Modes
                    THEN find_matches(commands, calls[c].user_input,
                                      state.current_mode)
                    ELSE <<>>
           command == IF again = <<>> THEN commands[calls[c].command[1]]
                      ELSE commands[again[1].cmd]
           r == execute_command(command, calls[c].parsed_args, launch)
           call == [calls[c] EXCEPT !.launch = Some(launch)]
       IN  /\ state' = add_to_history(state, clock, command.key,
                                      calls[c].user_input, r.result)
           /\ appended' = Append(appended,
                                 HistoryEntry(clock, command.key,
                                              calls[c].user_input,
                                              r.result))
           /\ clock' = clock + 1
           /\ disk' = save_state(state', disk, writable)
           /\ finished' =
                  IF writable
                  THEN [call EXCEPT !.pc = "returned",
                                    !.result = Some(r.result)]
                  ELSE [call EXCEPT !.pc = "raised",
                                    !.raised = Some(<<"OSError">>)]
    /\ calls' = [calls EXCEPT ![c] = DoneCall]
    /\ commands' = CatalogAfter(c)
    /\ UNCHANGED beside

\* the child is done: `await process.communicate()` returns (it never does
\* for a child that never exits), execute_command returns, add_to_history,
\* return
ExecuteDone(c, launch) ==
    /\ calls[c].pc = "execute"
    /\ c \notin hung
    /\ LET command == commands[calls[c].command[1]]
           r == execute_command(command, calls[c].parsed_args, launch)
           call == [calls[c] EXCEPT !.launch = Some(launch)]
       IN  IF r.raised
           THEN /\ finished' = [call EXCEPT !.pc = "raised",
                                            !.raised = Some(r.exc)]
                /\ UNCHANGED <<state, disk, clock, appended>>
           ELSE /\ state' = add_to_history(state, clock, command.key,
                                           calls[c].user_input, r.result)
                /\ appended' = Append(appended,
                                      HistoryEntry(clock, command.key,
                                                   calls[c].user_input,
                                                   r.result))
                /\ clock' = clock + 1
                /\ disk' = save_state(state', disk, writable)
                /\ finished' =
                       IF writable
                       THEN [call EXCEPT !.pc = "returned",
                                         !.result = Some(r.result)]
                       ELSE [call EXCEPT !.pc = "raised",
                                         !.raised = Some(<<"OSError">>)]
    /\ calls' = [calls EXCEPT ![c] = DoneCall]
    /\ commands' = CatalogAfter(c)
    /\ UNCHANGED beside

\* set_mode storing the mode in a state dictionary made anew
SetModeFresh(mode) ==
    /\ state' = [DefaultState(state.session_start) EXCEPT
                     !.current_mode = mode]
    /\ disk' = save_state(state', disk, writable)
    /\ UNCHANGED <<clock, calls, finished, appended, aside>>

\* set_mode
SetMode(mode) ==
    /\ state' = [state EXCEPT !.current_mode = mode]
    /\ disk' = save_state(state', disk, writable)
    /\ UNCHANGED <<clock, calls, finished, appended, aside>>

Next ==
    \/ \E c \in CallIds, user_input \in Utterances :
           DispatchStart(c, user_input)
    \/ \E c \in CallIds : ExtractDone(c)
    \/ \E c \in CallIds, launch \in DispatchLaunches :
           ExecuteDone(c, launch)
    \/ \E mode \in Modes : SetMode(mode)

Spec == Init /\ [][Next]_vars

SpecHistory == InitHistory /\ [][Next]_vars

\* ------------------------------------------------------------------------
\* The matcher on its own: any catalog drawn from the pool, any text
\* ------------------------------------------------------------------------
RECURSIVE Selections(_)
Selections(n) ==
    IF n = 0 THEN {<<>>}
    ELSE LET shorter == Selections(n - 1)
         IN  shorter \cup
             {Append(sel, i) : sel \in {x \in shorter : Len(x) = n - 1},
                               i \in 1..Len(CommandPool)}

\* command keys are unique within a catalog
Catalogs ==
    {[i \in 1..Len(sel) |-> CommandPool[sel[i]]] :
        sel \in {x \in Selections(MaxCmds) :
                    \A i, j \in 1..Len(x) : i # j => x[i] # x[j]}}

\* get_available_commands; with mode None the property current_mode is
\* read, and AssistantMode(...) raises on a stored mode that is not in the
\* enum; an explicit mode is used as given
get_available_commands(cmds, st, mode) ==
    LET m == IF mode = None THEN st.current_mode ELSE mode[1]
        keep == {i \in 1..Len(cmds) : SupportsMode(cmds[i], m)}
        RECURSIVE Listing(_)
        Listing(n) ==
            IF n = 0 THEN <<>>
            ELSE IF n \in keep THEN Append(Listing(n - 1), cmds[n])
            ELSE Listing(n - 1)
    IN  IF mode = None /\ st.current_mode \notin Modes
        THEN Raise(<<"ValueError">>)
        ELSE Return(Listing(Len(cmds)))

InitMatch ==
    /\ commands \in Catalogs
    /\ matched \in {[NoQuery EXCEPT !.user_input = t, !.mode = m] :
                       t \in Texts, m \in Modes}
    /\ disk = StoredDoc(matched.mode, 0)
    /\ writable = TRUE
    /\ clock = 1
    /\ state = _load_state(disk, 0)
    /\ calls = [c \in CallIds |-> IdleCall]
    /\ finished = IdleCall
    /\ loaded = 0
    /\ appended = <<>>
    /\ listed = NoListing
    /\ executed = NoExecution
    /\ hung = {}
    /\ startup = Constructed(disk)
    /\ registry = GivenRegistry
    /\ answered = NoAnswer

\* find_matches called with the text and the mode drawn
FindMatches ==
    /\ ~matched.done
    /\ matched' = [matched EXCEPT
                      !.matches = find_matches(commands, matched.user_input,
                                               matched.mode),
                      !.done = TRUE]
    /\ UNCHANGED <<commands, state, disk, writable, clock, calls, finished,
                   loaded, appended, listed, executed, hung,
                   startup, registry, answered>>

\* get_available_commands called without a mode or with the mode drawn
GetAvailableCommands(mode) ==
    /\ ~listed.done
    /\ LET call == get_available_commands(commands, state, mode)
       IN  listed' = [mode |-> mode,
                      commands |-> IF call.raised THEN <<>> ELSE call.result,
                      raised |-> IF call.raised THEN Some(call.exc) ELSE None,
                      done |-> TRUE]
    /\ UNCHANGED <<commands, state, disk, writable, clock, calls, finished,
                   loaded, appended, matched, executed, hung,
                   startup, registry, answered>>

NextMatch ==
    \/ FindMatches
    \/ \E mode \in {None, Some(matched.mode)} : GetAvailableCommands(mode)

SpecMatch == InitMatch /\ [][NextMatch]_vars

\* ------------------------------------------------------------------------
\* The execution engine on its own: any command of the pool, any launch
\* ------------------------------------------------------------------------
InitEngine ==
    /\ commands = CommandPool
    /\ disk = StoredDoc("general", 0)
    /\ writable = TRUE
    /\ clock = 1
    /\ state = _load_state(disk, 0)
    /\ calls = [c \in CallIds |-> IdleCall]
    /\ finished = IdleCall
    /\ loaded = 0
    /\ appended = <<>>
    /\ matched = NoQuery
    /\ listed = NoListing
    /\ executed = NoExecution
    /\ hung = {}
    /\ startup = Constructed(disk)
    /\ registry = GivenRegistry
    /\ answered = NoAnswer

ExecuteCommand(command, parsed_args, launch) ==
    /\ executed' = [command |-> command, parsed_args |-> parsed_args,
                    launch |-> Some(launch),
                    outcome |-> Some(execute_command(commands[command],
                                                     parsed_args, launch))]
    /\ UNCHANGED <<commands, state, disk, writable, clock, calls, finished,
                   loaded, appended, matched, listed, hung,
                   startup, registry, answered>>

NextEngine ==
    \E command \in 1..Len(commands), launch \in Launches :
        \E parsed_args \in {None, Some(parse_command(<<"c">>,
                                                     commands[command]))} :
            ExecuteCommand(command, parsed_args, launch)

SpecEngine == InitEngine /\ [][NextEngine]_vars

\* ------------------------------------------------------------------------
\* The session store under dispatches, set_mode and add_alias
\* ------------------------------------------------------------------------
\* d[k] = v on a dict: the mapping with k set to v
DictSet(d, k, v) ==
    [x \in (DOMAIN d) \cup {k} |-> IF x = k THEN v ELSE d[x]]

\* alias strings and command keys given to add_alias
AliasNames == {"play"}
AliasTargets == {"alpha", "beta"}

\* add_alias: get the mapping, set the alias in it, set() it back and save
AddAlias(alias, command_key) ==
    /\ state' = [state EXCEPT !.aliases = DictSet(@, alias, command_key)]
    /\ disk' = save_state(state', disk, writable)
    /\ UNCHANGED <<clock, calls, finished, appended, aside>>

\* the file is absent or holds a document in general mode
InitStore ==
    /\ commands = CommandPool
    /\ disk \in {[kind |-> "missing", doc |-> DefaultState(0)],
                 StoredDoc("general", 0)}
    /\ writable \in BOOLEAN
    /\ clock = 1
    /\ state = _load_state(disk, 0)
    /\ calls = [c \in CallIds |-> IdleCall]
    /\ finished = IdleCall
    /\ loaded = Len(state.last_commands)
    /\ appended = <<>>
    /\ matched = NoQuery
    /\ listed = NoListing
    /\ executed = NoExecution
    /\ hung = {}
    /\ startup = Constructed(disk)
    /\ registry = GivenRegistry
    /\ answered = NoAnswer

\* texts spoken to dispatch() in these runs
StoreUtterances == {<<"A", "b", "c">>, <<"a">>}

NextStore ==
    \/ \E c \in CallIds, user_input \in StoreUtterances :
           DispatchStart(c, user_input)
    \/ \E c \in CallIds : ExtractDone(c)
    \/ \E c \in CallIds, launch \in DispatchLaunches :
           ExecuteDone(c, launch)
    \/ \E mode \in {"general", "study"} : SetMode(mode)
    \/ \E alias \in AliasNames, command_key \in AliasTargets :
           AddAlias(alias, command_key)

SpecStore == InitStore /\ [][NextStore]_vars

\* ------------------------------------------------------------------------
\* Dispatches whose child prints a long text
\* ------------------------------------------------------------------------
\* lengths of the text printed, around the storage limit
OutputLens == {0, OutputLimit - 1, OutputLimit, OutputLimit + 1}

\* n characters; the character depends on the position
ChildText(n) ==
    [i \in 1..n |-> IF i % 3 = 0 THEN "c" ELSE IF i % 3 = 1 THEN "a" ELSE "b"]

\* a child that prints n characters between white space and exits
LongLaunches ==
    {[kind |-> "exit", returncode |-> rc,
      stdout |-> <<" ">> \o ChildText(n) \o <<"\n">>,
      stderr |-> <<"b", "a", "d", "\n">>] :
        rc \in {0, 1}, n \in OutputLens}

InitOutput ==
    /\ commands = CommandPool
    /\ disk = StoredDoc("general", 0)
    /\ writable \in BOOLEAN
    /\ clock = 1
    /\ state = _load_state(disk, 0)
    /\ calls = [c \in CallIds |-> IdleCall]
    /\ finished = IdleCall
    /\ loaded = Len(state.last_commands)
    /\ appended = <<>>
    /\ matched = NoQuery
    /\ listed = NoListing
    /\ executed = NoExecution
    /\ hung = {}
    /\ startup = Constructed(disk)
    /\ registry = GivenRegistry
    /\ answered = NoAnswer

NextOutput ==
    \/ \E c \in CallIds, user_input \in StoreUtterances :
           DispatchStart(c, user_input)
    \/ \E c \in CallIds : ExtractDone(c)
    \/ \E c \in CallIds, launch \in LongLaunches : ExecuteDone(c, launch)

SpecOutput == InitOutput /\ [][NextOutput]_vars

\* ------------------------------------------------------------------------
\* Dispatches in flight together, the child of one of them never exiting
\* ------------------------------------------------------------------------
InitHang ==
    /\ commands = CommandPool
    /\ disk = StoredDoc("general", 0)
    /\ writable = TRUE
    /\ clock = 1
    /\ state = _load_state(disk, 0)
    /\ calls = [c \in CallIds |-> IdleCall]
    /\ finished = IdleCall
    /\ loaded = Len(state.last_commands)
    /\ appended = <<>>
    /\ matched = NoQuery
    /\ listed = NoListing
    /\ executed = NoExecution
    /\ hung \in (SUBSET CallIds) \ {{}}
    /\ startup = Constructed(disk)
    /\ registry = GivenRegistry
    /\ answered = NoAnswer

NextHang ==
    \/ \E c \in CallIds, user_input \in StoreUtterances :
           DispatchStart(c, user_input)
    \/ \E c \in CallIds : ExtractDone(c)
    \/ \E c \in CallIds, launch \in Launches :
           ExecuteDone(c, launch)

\* the event loop resumes a coroutine whose awaited call has returned: the
\* argument extraction returns at once, a child that exits ends the wait
SpecHang ==
    /\ InitHang
    /\ [][NextHang]_vars
    /\ \A c \in CallIds :
           /\ WF_vars(ExtractDone(c))
           /\ WF_vars(\E launch \in Launches : ExecuteDone(c, launch))

\* ------------------------------------------------------------------------
\* A burst of dispatches: every call is made before the first child is done
\* ------------------------------------------------------------------------
BurstDisks == {StoredDoc("general", n) : n \in {0, 1}}

InitBurst ==
    /\ commands = CommandPool
    /\ disk \in BurstDisks
    /\ writable \in BOOLEAN
    /\ clock = 1
    /\ state = _load_state(disk, 0)
    /\ calls = [c \in CallIds |-> IdleCall]
    /\ finished = IdleCall
    /\ loaded = Len(state.last_commands)
    /\ appended = <<>>
    /\ matched = NoQuery
    /\ listed = NoListing
    /\ executed = NoExecution
    /\ hung = {}
    /\ startup = Constructed(disk)
    /\ registry = GivenRegistry
    /\ answered = NoAnswer

\* dispatch() called while no call of the burst has recorded yet: the call
\* is in flight together with every call that records
DispatchInBurst(c, user_input) ==
    /\ appended = <<>>
    /\ DispatchStart(c, user_input)

NextBurst ==
    \/ \E c \in CallIds, user_input \in StoreUtterances :
           DispatchInBurst(c, user_input)
    \/ \E c \in CallIds : ExtractDone(c)
    \/ \E c \in CallIds, launch \in DispatchLaunches :
           ExecuteDone(c, launch)

SpecBurst == InitBurst /\ [][NextBurst]_vars

\* ------------------------------------------------------------------------
\* Start on a session file that is absent or damaged
\* ------------------------------------------------------------------------
\* get_stats: the dictionary returned, the success rate as the two numbers
\* divided; AssistantMode(...) raises on a mode that is not in the enum
get_stats(st) ==
    LET history == st.last_commands
        total_commands == Len(history)
        successful_commands ==
            Cardinality({i \in 1..Len(history) : history[i].success})
    IN  IF st.current_mode \notin Modes THEN Raise(<<"ValueError">>)
        ELSE Return([total_commands |-> total_commands,
                     successful_commands |-> successful_commands,
                     success_rate |->
                         IF total_commands > 0
                         THEN <<successful_commands, total_commands>>
                         ELSE <<0, 1>>,
                     current_mode |-> st.current_mode,
                     session_start |-> st.session_start])

\* the file at start: absent, not JSON, not text, or a document
LoadDisks ==
    {[kind |-> k, doc |-> DefaultState(0)] :
        k \in {"missing", "corrupt", "undecodable"}}
    \cup {StoredDoc("study", 0)}

InitLoad ==
    /\ commands = CommandPool
    /\ disk \in LoadDisks
    /\ writable = TRUE
    /\ clock = 1
    /\ startup = Constructed(disk)
    /\ registry = GivenRegistry
    /\ answered = NoAnswer
    /\ state = IF startup.error = None THEN _load_state(disk, 0) ELSE NoState
    /\ calls = [c \in CallIds |-> IdleCall]
    /\ finished = IdleCall
    /\ loaded = Len(state.last_commands)
    /\ appended = <<>>
    /\ matched = NoQuery
    /\ listed = NoListing
    /\ executed = NoExecution
    /\ hung = {}

\* there is a dispatcher to call only when its construction returned
NextLoad ==
    /\ startup.error = None
    /\ \/ \E c \in CallIds, user_input \in StoreUtterances :
              DispatchStart(c, user_input)
       \/ \E c \in CallIds : ExtractDone(c)
       \/ \E c \in CallIds, launch \in DispatchLaunches :
              ExecuteDone(c, launch)
       \/ \E mode \in {"general", "coding"} : SetMode(mode)

SpecLoad == InitLoad /\ [][NextLoad]_vars

\* ------------------------------------------------------------------------
\* CommandRegistry built from a registry document
\* ------------------------------------------------------------------------
\* CommandCategory
Categories ==
    {"utility", "audio", "coding", "productivity", "knowledge", "system"}

\* records found in registry documents; keywords are whole words here,
\* nothing is matched against them
RegistryRecords ==
    {[key |-> "one", name |-> "One", keywords |-> <<"mute">>,
      category |-> "audio", environment |-> "python",
      modes |-> <<"general", "streaming">>, ai_parsing |-> TRUE],
     [key |-> "two", name |-> "Two", keywords |-> <<"open">>,
      category |-> "utility", environment |-> "system"],
     [key |-> "one", name |-> "Uno", keywords |-> <<"close">>,
      category |-> "coding", environment |-> "java",
      modes |-> <<"coding">>, args |-> <<"-v">>],
     [key |-> "three", name |-> "Three", keywords |-> <<"play">>,
      category |-> "games", environment |-> "python",
      modes |-> <<"general">>],
     [key |-> "four", name |-> "Four", keywords |-> <<"run">>,
      category |-> "utility", environment |-> "ruby",
      modes |-> <<"coding">>],
     [key |-> "five", name |-> "Five", keywords |-> <<"read">>,
      category |-> "system", environment |-> "nodejs",
      modes |-> <<"study", "gaming">>]}

\* the records _create_default_registry writes
DefaultRecords == <<
    [key |-> "voicemeeter_control", name |-> "Voicemeeter Audio Control",
     keywords |-> <<"patch", "mute", "unmute", "volume", "audio", "strip",
                    "bus">>,
     category |-> "audio", environment |-> "python", ai_parsing |-> TRUE,
     modes |-> <<"general", "streaming">>],
    [key |-> "app_launcher", name |-> "Application Launcher",
     keywords |-> <<"open", "launch", "start", "close", "kill", "app">>,
     category |-> "utility", environment |-> "python",
     modes |-> <<"general", "coding", "study">>]
>>

RECURSIVE RecordLists(_)
RecordLists(n) ==
    IF n = 0 THEN {<<>>}
    ELSE LET shorter == RecordLists(n - 1)
         IN  shorter \cup {Append(l, r) : l \in {x \in shorter : Len(x) = n - 1},
                                          r \in RegistryRecords}

RegistryDoc(records) == [kind |-> "doc", records |-> records]

\* the registry file as found: absent, or a document of up to MaxCmds records
RegistryFiles ==
    {NoRegistryFile} \cup {RegistryDoc(l) : l \in RecordLists(MaxCmds)}

\* cmd_data.get(field, default)
GetField(cmd_data, field, default) ==
    IF field \in DOMAIN cmd_data THEN cmd_data[field] ELSE default

\* the first Enum(value) call of Command(...) that raises ValueError: the
\* category, then the environment, then the modes in order
FirstInvalid(cmd_data) ==
    IF cmd_data.category \notin Categories
    THEN Some(<<"ValueError", "CommandCategory", cmd_data.category>>)
    ELSE IF cmd_data.environment \notin Environments
    THEN Some(<<"ValueError", "ExecutionEnvironment", cmd_data.environment>>)
    ELSE LET modes == GetField(cmd_data, "modes", <<>>)
             bad == {i \in 1..Len(modes) : modes[i] \notin Modes}
         IN  IF bad = {} THEN None
             ELSE Some(<<"ValueError", "AssistantMode",
                         modes[CHOOSE i \in bad : \A j \in bad : i <= j]>>)

\* Command(...) of a record whose values are all in their enumerations
BuildCommand(cmd_data) ==
    LET modes == GetField(cmd_data, "modes", <<>>)
    IN  [key |-> cmd_data.key, name |-> cmd_data.name,
         keywords |-> cmd_data.keywords,
         category |-> cmd_data.category,
         environment |-> cmd_data.environment,
         args |-> ArgList(GetField(cmd_data, "args", <<>>)),
         modes |-> {modes[i] : i \in 1..Len(modes)},
         requires_confirmation |->
             GetField(cmd_data, "requires_confirmation", FALSE),
         ai_parsing |-> GetField(cmd_data, "ai_parsing", FALSE)]

\* self.commands[cmd.key] = cmd: a key already there keeps its place
RegistrySet(cmds, cmd) ==
    IF \E i \in 1..Len(cmds) : cmds[i].key = cmd.key
    THEN [i \in 1..Len(cmds) |->
             IF cmds[i].key = cmd.key THEN cmd ELSE cmds[i]]
    ELSE Append(cmds, cmd)

\* CommandRegistry(...) is about to be called on the file drawn; the caller
\* holds no catalog yet
InitRegistry ==
    /\ commands = <<>>
    /\ disk = StoredDoc("general", 0)
    /\ writable = TRUE
    /\ clock = 1
    /\ state = _load_state(disk, 0)
    /\ calls = [c \in CallIds |-> IdleCall]
    /\ finished = IdleCall
    /\ loaded = 0
    /\ appended = <<>>
    /\ matched = NoQuery
    /\ listed = NoListing
    /\ executed = NoExecution
    /\ hung = {}
    /\ startup = Constructed(disk)
    /\ answered = NoAnswer
    /\ \E file \in RegistryFiles :
           registry = [opened |-> file, file |-> file, pc |-> "new",
                       next |-> 1, commands |-> <<>>, error |-> None]

registry_aside ==
    <<state, disk, writable, clock, calls, finished, loaded, appended,
      matched, listed, executed, hung, startup, answered>>

\* __init__ and the open() of _load_commands; FileNotFoundError leads to
\* _create_default_registry, which writes the default document and opens
\* it
OpenRegistry ==
    /\ registry.pc = "new"
    /\ registry' =
           [registry EXCEPT
               !.pc = "loading",
               !.file = IF @.kind = "missing"
                        THEN RegistryDoc(DefaultRecords) ELSE @]
    /\ UNCHANGED <<commands, registry_aside>>

\* one pass of the loop with ValueError caught and the record left out
LoadRecordSkipping ==
    /\ registry.pc = "loading"
    /\ registry.next <= Len(registry.file.records)
    /\ LET cmd_data == registry.file.records[registry.next]
       IN  registry' =
               IF FirstInvalid(cmd_data) # None
               THEN [registry EXCEPT !.next = @ + 1]
               ELSE [registry EXCEPT
                        !.commands = RegistrySet(@, BuildCommand(cmd_data)),
                        !.next = @ + 1]
    /\ UNCHANGED <<commands, registry_aside>>

\* one pass of the loop of _load_commands: ValueError is not caught and
\* leaves the constructor
LoadRecord ==
    /\ registry.pc = "loading"
    /\ registry.next <= Len(registry.file.records)
    /\ LET cmd_data == registry.file.records[registry.next]
       IN  registry' =
               IF FirstInvalid(cmd_data) # None
               THEN [registry EXCEPT !.pc = "raised",
                                     !.error = FirstInvalid(cmd_data)]
               ELSE [registry EXCEPT
                        !.commands = RegistrySet(@, BuildCommand(cmd_data)),
                        !.next = @ + 1]
    /\ UNCHANGED <<commands, registry_aside>>

\* the loop is over: the constructor returns and the caller holds the
\* registry with its catalog
RegistryBuilt ==
    /\ registry.pc = "loading"
    /\ registry.next > Len(registry.file.records)
    /\ registry' = [registry EXCEPT !.pc = "built"]
    /\ commands' = registry.commands
    /\ UNCHANGED registry_aside

NextRegistry ==
    \/ OpenRegistry
    \/ LoadRecord
    \/ RegistryBuilt

SpecRegistry == InitRegistry /\ [][NextRegistry]_vars

\* ------------------------------------------------------------------------
\* Every operation of the dispatcher on one session
\* ------------------------------------------------------------------------
\* get_command_history: history[-limit:], which is the whole history for
\* limit 0
get_command_history(st, limit) ==
    IF limit = 0 THEN st.last_commands ELSE LastN(st.last_commands, limit)

HistoryLimits == {0, 1}
FrameAliases == {"play", "stop"}
FrameUtterances == {<<"a">>}
FrameLaunches ==
    {l \in DispatchLaunches : l.kind = "exit" /\ l.returncode = 0}

\* the session file at start: its stored mode is of the enum or not
FrameDisks == {StoredDoc(m, 1) : m \in {"general", "gaming"}}

InitFrame ==
    /\ commands = CommandPool
    /\ disk \in FrameDisks
    /\ writable = TRUE
    /\ clock = 1
    /\ state = _load_state(disk, 0)
    /\ calls = [c \in CallIds |-> IdleCall]
    /\ finished = IdleCall
    /\ loaded = Len(state.last_commands)
    /\ appended = <<>>
    /\ matched = NoQuery
    /\ listed = NoListing
    /\ executed = NoExecution
    /\ hung = {}
    /\ startup = Constructed(disk)
    /\ registry = GivenRegistry
    /\ answered = NoAnswer

\* get_command_history(limit)
GetCommandHistory(limit) ==
    /\ answered' = [op |-> "get_command_history", limit |-> limit,
                    answer |-> Some(get_command_history(state, limit))]
    /\ UNCHANGED <<commands, state, disk, writable, clock, calls, finished,
                   loaded, appended, matched, listed, executed, hung,
                   startup, registry>>

\* get_stats()
GetStats ==
    /\ answered' = [op |-> "get_stats", limit |-> 0,
                    answer |-> Some(get_stats(state))]
    /\ UNCHANGED <<commands, state, disk, writable, clock, calls, finished,
                   loaded, appended, matched, listed, executed, hung,
                   startup, registry>>

NextFrame ==
    \/ \E c \in CallIds, user_input \in FrameUtterances :
           DispatchStart(c, user_input)
    \/ \E c \in CallIds : ExtractDone(c)
    \/ \E c \in CallIds, launch \in FrameLaunches :
           ExecuteDone(c, launch)
    \/ \E mode \in {"general", "study"} : SetMode(mode)
    \/ \E alias \in FrameAliases, command_key \in AliasTargets :
           AddAlias(alias, command_key)
    \/ \E mode \in {None, Some("study")} : GetAvailableCommands(mode)
    \/ \E limit \in HistoryLimits : GetCommandHistory(limit)
    \/ GetStats

SpecFrame == InitFrame /\ [][NextFrame]_vars

\* ------------------------------------------------------------------------
\* Vocabulary of the properties: scores in exact tenths, as the
\* specification counts them
\* ------------------------------------------------------------------------
SameLetter(x, y) == LowerChar(x) = LowerChar(y)

\* keyword occurs in text at offset off, letter case ignored
OccursAt(keyword, text, off) ==
    /\ off + Len(keyword) <= Len(text)
    /\ \A i \in 1..Len(keyword) : SameLetter(keyword[i], text[off + i])

\* contribution of one keyword in tenths: 1.0, 0.8, 0.5 or nothing
Tenths(keyword, text) ==
    IF Len(keyword) = Len(text) /\ OccursAt(keyword, text, 0) THEN 10
    ELSE IF OccursAt(keyword, text, 0) THEN 8
    ELSE IF \E off \in 1..Len(text) : OccursAt(keyword, text, off) THEN 5
    ELSE 0

RECURSIVE SumTenths(_, _, _)
SumTenths(keywords, n, text) ==
    IF n = 0 THEN 0
    ELSE SumTenths(keywords, n - 1, text) + Tenths(keywords[n], text)

NominalScore(cmd, text) == SumTenths(cmd.keywords, Len(cmd.keywords), text)

FloatOfTenths(t) ==
    CASE t = 10 -> F_1_0 [] t = 8 -> F_0_8 [] t = 5 -> F_0_5 [] OTHER -> F_0_0

\* the contributions added up as floats, in keyword order
RECURSIVE SumFloats(_, _, _)
SumFloats(keywords, n, text) ==
    IF n = 0 THEN F_0_0
    ELSE LET t == Tenths(keywords[n], text)
             before == SumFloats(keywords, n - 1, text)
         IN  IF t = 0 THEN before ELSE FAdd(before, FloatOfTenths(t))

Offered(cmd, mode) == cmd.modes = {} \/ mode \in cmd.modes

\* positions of the catalog's commands that are candidates for text in mode
CandidatesOf(cmds, text, mode) ==
    {i \in 1..Len(cmds) : Offered(cmds[i], mode)
                          /\ NominalScore(cmds[i], text) > 0}

\* the highest nominal score among the positions in set
TopTenths(cmds, text, set) ==
    CHOOSE t \in {NominalScore(cmds[i], text) : i \in set} :
        \A i \in set : NominalScore(cmds[i], text) <= t

\* the nominal gap between the best and the second best candidate
TopGap(cmds, text, mode) ==
    LET cand == CandidatesOf(cmds, text, mode)
        best == CHOOSE i \in cand :
                    NominalScore(cmds[i], text) = TopTenths(cmds, text, cand)
    IN  TopTenths(cmds, text, cand)
        - TopTenths(cmds, text, cand \ {best})

\* a dispatch() that has just taken its first step, and the text it was given
Started(c) == calls[c].pc = "idle" /\ calls'[c].pc # "idle"
StartedText(c) ==
    IF calls'[c].pc = "done" THEN finished'.user_input
    ELSE calls'[c].user_input

\* the session state, in memory and on file, and the history are as before
StoreUnchanged ==
    state' = state /\ disk' = disk /\ appended' = appended /\ clock' = clock

\* ------------------------------------------------------------------------
\* Properties
\* ------------------------------------------------------------------------

\* C1: after any number of add_to_history calls the stored history has at
\* most 50 entries, and they are the most recently appended ones, in append
\* order (what is dropped is dropped from the old end).
C1_HistoryBounded ==
    LET all == Prefill(loaded) \o appended
        history == state.last_commands
        kept == IF Len(all) < HistoryLimit THEN Len(all) ELSE HistoryLimit
    IN  /\ Len(history) <= HistoryLimit
        /\ Len(history) = kept
        /\ \A i \in 1..kept : history[i] = all[Len(all) - kept + i]

\* two entries appended to a full history: two old entries were evicted
C1_Witness ==
    /\ loaded = HistoryLimit
    /\ Len(appended) >= 2
    /\ state.last_commands[HistoryLimit] = appended[Len(appended)]

\* C2: when no command offered in the current mode scores above zero for
\* the text, dispatch returns the failure 'No matching commands found',
\* never enters the execution engine and leaves the session state and the
\* history as they were.
C2_NoMatch ==
    [][\A c \in CallIds :
        (/\ Started(c)
         /\ state.current_mode \in Modes
         /\ CandidatesOf(commands, StartedText(c), state.current_mode) = {})
        => (/\ calls'[c].pc = "done"
            /\ finished'.pc = "returned"
            /\ finished'.result # None
            /\ finished'.result[1].success = FALSE
            /\ finished'.result[1].output = <<"No matching commands found">>
            /\ finished'.executions = 0
            /\ StoreUnchanged)]_vars

\* a text without candidates was dispatched after the history had an entry
C2_Witness ==
    /\ finished.pc = "returned"
    /\ finished.mode \in Modes
    /\ finished.user_input = <<"c">>
    /\ CandidatesOf(commands, finished.user_input, finished.mode) = {}
    /\ finished.executions = 0
    /\ state.last_commands # <<>>

\* the output is the clarification question naming the top candidates,
\* three at most
IsClarification(output, cmds, text, mode) ==
    LET cand == CandidatesOf(cmds, text, mode)
        k == (Len(output) - 1) \div 2
        named == {i \in cand : \E n \in 1..k : output[2 * n] = cmds[i].name}
    IN  /\ Len(output) \in {5, 7}
        /\ k = (IF Cardinality(cand) < 3 THEN Cardinality(cand) ELSE 3)
        /\ output[1] = "I found multiple possible commands: "
        /\ output[Len(output)] = ". Which one did you mean?"
        /\ \A n \in 1..(k - 1) : output[2 * n + 1] = ", "
        /\ Cardinality(named) = k
        /\ \A i \in named, j \in cand \ named :
               NominalScore(cmds[i], text) >= NominalScore(cmds[j], text)

\* C3: with two or more candidates whose top two scores differ by less than
\* 0.3, dispatch returns a failure whose output is the clarification
\* question naming at most the top three candidates; nothing is executed
\* and no history entry is written.
C3_Clarifies ==
    [][\A c \in CallIds :
        (/\ Started(c)
         /\ state.current_mode \in Modes
         /\ Cardinality(CandidatesOf(commands, StartedText(c),
                                     state.current_mode)) >= 2
         /\ TopGap(commands, StartedText(c), state.current_mode) < 3)
        => (/\ calls'[c].pc = "done"
            /\ finished'.pc = "returned"
            /\ finished'.result # None
            /\ finished'.result[1].success = FALSE
            /\ IsClarification(finished'.result[1].output, commands,
                               StartedText(c), state.current_mode)
            /\ finished'.executions = 0
            /\ StoreUnchanged)]_vars

\* an ambiguous text with more than three candidates was dispatched
C3_Witness ==
    /\ finished.pc = "returned"
    /\ finished.mode \in Modes
    /\ Cardinality(CandidatesOf(commands, finished.user_input,
                                finished.mode)) > 3
    /\ TopGap(commands, finished.user_input, finished.mode) < 3
    /\ Len(finished.result[1].output) = 7

\* C4: with exactly one candidate, or with top two scores that differ by
\* 0.3 or more (a gap of exactly 0.3 included), dispatch goes on to execute
\* the single highest-scoring candidate.
C4_SelectsBest ==
    [][\A c \in CallIds :
        (/\ Started(c)
         /\ state.current_mode \in Modes
         /\ LET cand == CandidatesOf(commands, StartedText(c),
                                     state.current_mode)
            IN  /\ cand # {}
                /\ \/ Cardinality(cand) = 1
                   \/ TopGap(commands, StartedText(c),
                             state.current_mode) >= 3)
        => (/\ calls'[c].pc \in {"extract", "execute"}
            /\ calls'[c].command # None
            /\ LET cand == CandidatesOf(commands, StartedText(c),
                                        state.current_mode)
               IN  /\ calls'[c].command[1] \in cand
                   /\ \A j \in cand \ {calls'[c].command[1]} :
                          NominalScore(commands[j], StartedText(c))
                          < NominalScore(commands[calls'[c].command[1]],
                                         StartedText(c))
            /\ calls'[c].executions <= 1)]_vars

\* C5: a dispatch that reaches the execute step appends exactly one history
\* entry before it returns, whether the execution succeeded or failed; the
\* entry has the selected command's key, the input text as given and the
\* outcome's success flag, and the outcome returned is the engine's.
C5_Recorded ==
    [][\A c \in CallIds :
        (calls[c].pc = "execute" /\ calls'[c].pc = "done"
         /\ finished'.pc = "returned")
        => LET before == state.last_commands
               after == state'.last_commands
               entry == after[Len(after)]
               command == commands[calls[c].command[1]]
               dropped == Len(before) + 1 - Len(after)
           IN  /\ after # <<>>
               /\ dropped \in {0, 1}
               /\ \A i \in 1..(Len(after) - 1) : after[i] = before[i + dropped]
               /\ appended' = Append(appended, entry)
               /\ entry.command = command.key
               /\ entry.input = calls[c].user_input
               /\ finished'.result # None
               /\ entry.success = finished'.result[1].success
               /\ finished'.launch # None
               /\ finished'.result[1] =
                      execute_command(command, calls[c].parsed_args,
                                      finished'.launch[1]).result
               /\ finished'.executions = 1]_vars

\* a dispatch of a text with a capital letter whose launch failed returned
C5_Witness ==
    /\ finished.pc = "returned"
    /\ finished.executions = 1
    /\ finished.launch # None
    /\ finished.launch[1].kind = "spawn_error"
    /\ finished.user_input = <<"A", "b", "c">>
    /\ state.last_commands # <<>>
    /\ state.last_commands[Len(state.last_commands)].input
           = <<"A", "b", "c">>
    /\ ~state.last_commands[Len(state.last_commands)].success

\* the mode get_available_commands listed for
ListedMode == IF listed.mode = None THEN state.current_mode ELSE listed.mode[1]

\* C6: a command with a non-empty mode set is never returned by
\* find_matches nor by get_available_commands for a mode outside the set; a
\* command with an empty mode set is eligible in every mode.
C6_ModeFilter ==
    /\ matched.done =>
           \A i \in 1..Len(matched.matches) :
               Offered(commands[matched.matches[i].cmd], matched.mode)
    /\ listed.done =>
           /\ listed.raised = None
           /\ ListedMode \in Modes
           /\ \A i \in 1..Len(listed.commands) :
                  Offered(listed.commands[i], ListedMode)
    /\ \A j \in 1..Len(commands) :
           commands[j].modes = {} =>
               /\ listed.done =>
                      \E i \in 1..Len(listed.commands) :
                          listed.commands[i] = commands[j]
               /\ (matched.done
                   /\ NominalScore(commands[j], matched.user_input) > 0) =>
                      \E i \in 1..Len(matched.matches) :
                          matched.matches[i].cmd = j

\* a command that hits the text was left out for its modes, next to one
\* without modes that was returned
C6_Witness ==
    /\ matched.done
    /\ listed.done
    /\ listed.raised = None
    /\ \E j \in 1..Len(commands) :
           /\ ~Offered(commands[j], matched.mode)
           /\ NominalScore(commands[j], matched.user_input) > 0
    /\ \E i \in 1..Len(matched.matches) :
           commands[matched.matches[i].cmd].modes = {}
    /\ Len(listed.commands) < Len(commands)

\* C7: find_matches returns its candidates in non-increasing score order,
\* and every candidate returned has a score above zero.
C7_SortedPositive ==
    matched.done =>
        LET m == matched.matches
            nominal(i) == NominalScore(commands[m[i].cmd], matched.user_input)
        IN  /\ \A i \in 1..Len(m) : nominal(i) > 0 /\ FLess(F_0_0, m[i].score)
            /\ \A i, j \in 1..Len(m) :
                   i < j => (nominal(i) >= nominal(j)
                             /\ ~FLess(m[i].score, m[j].score))

\* the catalog held the better candidate after the worse one
C7_Witness ==
    /\ matched.done
    /\ Len(matched.matches) >= 2
    /\ matched.matches[1].cmd > matched.matches[2].cmd
    /\ FLess(matched.matches[2].score, matched.matches[1].score)

\* C8: the score of a command is the sum over its keywords of 1.0 for a
\* keyword equal to the whole input, 0.8 for a proper prefix of the input,
\* 0.5 for a keyword occurring elsewhere in it and 0 otherwise, letter case
\* ignored.
C8_ScoreIsSum ==
    matched.done =>
        \A i \in 1..Len(matched.matches) :
            LET keywords == commands[matched.matches[i].cmd].keywords
            IN  matched.matches[i].score
                    = SumFloats(keywords, Len(keywords), matched.user_input)

\* one command scored on all three tiers, above 1.0, on a text with a
\* capital letter
C8_Witness ==
    /\ matched.done
    /\ \E n \in 1..Len(matched.user_input) : matched.user_input[n] = "A"
    /\ \E i \in 1..Len(matched.matches) :
           LET keywords == commands[matched.matches[i].cmd].keywords
           IN  /\ \A t \in {10, 8, 5} :
                      \E k \in 1..Len(keywords) :
                          Tenths(keywords[k], matched.user_input) = t
               /\ FLess(F_1_0, matched.matches[i].score)

\* the launch did not end in exit code 0, or the argument vector could not
\* be built
LaunchFailed(command, launch) ==
    \/ launch.kind # "exit"
    \/ launch.returncode # 0
    \/ ~command.args.iterable

\* C9: execute_command never raises: whatever the launch does, it returns
\* an outcome, and a failure has success = false and the error text in the
\* error field.
C9_EngineNeverRaises ==
    executed.outcome # None =>
        /\ ~executed.outcome[1].raised
        /\ LaunchFailed(commands[executed.command], executed.launch[1]) =>
               /\ ~executed.outcome[1].result.success
               /\ executed.outcome[1].result.error # None

\* the argument vector of a command could not be built ahead of the spawn
C9_Witness ==
    /\ executed.outcome # None
    /\ ~commands[executed.command].args.iterable
    /\ commands[executed.command].environment # "system"
    /\ executed.outcome[1].result.error = Some(TypeErrorText)

\* C10: dispatch always returns an outcome; no exception from reading the
\* mode, matching, launching or saving the history reaches its caller.
C10_DispatchNeverRaises == finished.pc # "raised"

\* C11: after every mutating store operation (set through set_mode and
\* add_alias, add_to_history) the session document in the file equals the
\* session state in memory; no step leaves a change in memory that the file
\* does not hold, under any interleaving of dispatches, set_mode and
\* add_alias.
C11_WriteThrough ==
    [][(state' # state \/ disk' # disk)
       => (disk'.kind = "doc" /\ disk'.doc = state')]_vars

\* C12: every stored history entry's output holds at most 200 characters,
\* and they are the first characters of the outcome's output, whatever its
\* length; an entry for an outcome with empty output stores no output.
C12_OutputTruncated ==
    /\ \A i \in 1..Len(state.last_commands) :
           LET stored == state.last_commands[i].output
           IN  stored # None =>
                   Len(stored[1]) >= 1 /\ Len(stored[1]) <= OutputLimit
    /\ finished.launch # None =>
           LET out == execute_command(commands[finished.command[1]],
                                      finished.parsed_args,
                                      finished.launch[1]).result.output
               stored == state.last_commands[Len(state.last_commands)].output
               kept == IF Len(out) < OutputLimit THEN Len(out)
                       ELSE OutputLimit
           IN  IF out = <<>> THEN stored = None
               ELSE /\ stored # None
                    /\ Len(stored[1]) = kept
                    /\ \A k \in 1..kept : stored[1][k] = out[k]

\* an outcome with 201 characters of output was stored with 200
C12_Witness ==
    /\ finished.launch # None
    /\ Len(finished.launch[1].stdout) = OutputLimit + 3
    /\ state.last_commands # <<>>
    /\ Len(state.last_commands[Len(state.last_commands)].output[1])
           = OutputLimit

\* C13: a dispatch call enters the execution engine at most once: when the
\* child is done the call ends, whether the execution succeeded or failed;
\* the command run is the top-ranked candidate, and a failed outcome is
\* what the call returns.
C13_SingleAttempt ==
    [][\A c \in CallIds :
        /\ calls'[c].executions <= 1
        /\ finished'.executions <= 1
        /\ (calls[c].pc = "execute" /\ calls'[c] # calls[c]) =>
               /\ calls'[c].pc = "done"
               /\ finished'.executions = 1
               /\ finished'.command = Some(calls[c].matches[1].cmd)
               /\ finished'.launch # None
               /\ (finished'.pc = "returned"
                   /\ LaunchFailed(commands[calls[c].matches[1].cmd],
                                   finished'.launch[1])) =>
                      /\ ~finished'.result[1].success
                      /\ finished'.result[1].error # None]_vars

\* a failed execution was returned while a second candidate stood by
C13_Witness ==
    /\ finished.pc = "returned"
    /\ finished.executions = 1
    /\ ~finished.result[1].success
    /\ Len(finished.matches) >= 2
    /\ Len(appended) = 1

\* text without the white space around it
Trimmed(text) ==
    LET inked == {i \in 1..Len(text) : text[i] \notin {" ", "\n", "\t"}}
        first == CHOOSE i \in inked : \A j \in inked : i <= j
        last == CHOOSE i \in inked : \A j \in inked : j <= i
    IN  IF inked = {} THEN <<>> ELSE SubSeq(text, first, last)

\* C14: the launcher maps the child's end to the outcome: exit code 0 gives
\* success with the (trimmed) stdout as output and no error; a nonzero exit
\* gives failure with the stdout as output and the stderr as error; a
\* failure to spawn gives failure with empty output and the raised message
\* as error.
C14_ExitMapping ==
    (executed.outcome # None
     /\ commands[executed.command].args.iterable) =>
        LET launch == executed.launch[1]
            outcome == executed.outcome[1]
        IN  /\ ~outcome.raised
            /\ (launch.kind = "exit" /\ launch.returncode = 0) =>
                   /\ outcome.result.success
                   /\ outcome.result.output = Trimmed(launch.stdout)
                   /\ outcome.result.error = None
            /\ (launch.kind = "exit" /\ launch.returncode # 0) =>
                   /\ ~outcome.result.success
                   /\ outcome.result.output = Trimmed(launch.stdout)
                   /\ outcome.result.error = Some(Trimmed(launch.stderr))
            /\ launch.kind = "spawn_error" =>
                   /\ ~outcome.result.success
                   /\ outcome.result.output = <<>>
                   /\ outcome.result.error = Some(SpawnErrorText)

\* a system command's child printed on both streams and exited with code 1
C14_Witness ==
    /\ executed.outcome # None
    /\ commands[executed.command].environment = "system"
    /\ executed.launch[1].kind = "exit"
    /\ executed.launch[1].returncode = 1
    /\ executed.outcome[1].result.output = <<"o", "k">>
    /\ executed.outcome[1].result.error = Some(<<"b", "a", "d">>)

\* two dispatch calls of a burst have recorded: both were called before the
\* first of the two entries was written, so they were in flight together
Raced ==
    /\ finished.launch # None
    /\ Len(appended) >= 2

\* C15 (as claimed): when two dispatch calls are in flight together and both
\* reach the Record step, one of the two appends is lost: the history holds
\* fewer new entries than dispatches that recorded, below the capacity.
C15_AppendLost ==
    Raced => Len(state.last_commands) < loaded + Len(appended)

\* C15 (amended): when two dispatch calls are in flight together and both
\* reach the Record step, both appends are kept: the history is what the
\* session file held followed by one entry per dispatch that recorded, in
\* recording order.
C15_NoAppendLost ==
    Raced =>
        LET history == state.last_commands
        IN  /\ Len(history) = loaded + Len(appended)
            /\ SubSeq(history, loaded + 1, Len(history)) = appended

\* two calls were made, then the child of each was done, and both have
\* recorded after the one entry the session file held
C15_Witness ==
    /\ Raced
    /\ loaded = 1
    /\ Len(appended) = 2
    /\ appended[1].timestamp = 1
    /\ appended[2].timestamp = 2
    /\ \A c \in CallIds : calls[c].pc = "done"
    /\ Len(state.last_commands) = 3

\* C16: a dispatch whose child never exits never returns and never writes a
\* history entry, and it blocks only itself: every other dispatch in flight
\* (waiting for its argument extraction or for its child) eventually
\* returns its outcome, having recorded its history entry.
C16_HangBlocksOnlyItself ==
    /\ [][\A c \in CallIds :
            /\ (c \in hung /\ calls[c].pc = "execute") =>
                   calls'[c] = calls[c]
            /\ (c \notin hung /\ calls[c].pc = "execute"
                /\ calls'[c].pc = "done") =>
                   /\ finished'.pc = "returned"
                   /\ finished'.result # None
                   /\ Len(appended') = Len(appended) + 1
                   /\ appended'[Len(appended')].input = calls[c].user_input
                   /\ state'.last_commands = Append(state.last_commands,
                                                    appended'[Len(appended')])
            /\ appended' # appended =>
                   \E d \in CallIds \ hung :
                       calls[d].pc = "execute" /\ calls'[d].pc = "done"]_vars
    /\ \A c \in CallIds :
           (c \notin hung /\ calls[c].pc \in {"extract", "execute"})
               ~> (calls[c].pc = "done")

\* the first call went straight to its child, which hangs; a call made
\* after it has returned and recorded, the first one still waiting
C16_Witness ==
    /\ 1 \in hung
    /\ calls[1].pc = "execute"
    /\ calls[1].parsed_args = None
    /\ finished.pc = "returned"
    /\ finished.executions = 1
    /\ appended # <<>>
    /\ state.last_commands = appended

\* C17: a selected command flagged requires_confirmation is executed without
\* waiting for a confirmation: the call goes from selection to extraction
\* or execution and to the history entry as for an unflagged command; no
\* call is ever suspended for a yes or no, and none is cancelled.
C17_NoConfirmation ==
    [][\A c \in CallIds :
        /\ calls'[c].pc \in {"idle", "extract", "execute", "done"}
        /\ (Started(c) /\ calls'[c].pc # "done"
            /\ commands[calls'[c].command[1]].requires_confirmation) =>
               /\ calls'[c].pc = (IF commands[calls'[c].command[1]].ai_parsing
                                  THEN "extract" ELSE "execute")
               /\ calls'[c].executions
                      = (IF calls'[c].pc = "execute" THEN 1 ELSE 0)
        /\ (calls[c].pc = "execute" /\ calls'[c] # calls[c]
            /\ commands[calls[c].command[1]].requires_confirmation) =>
               /\ calls'[c].pc = "done"
               /\ finished'.launch # None
               /\ finished'.executions = 1
               /\ appended' # appended
               /\ appended'[Len(appended')].command
                      = commands[calls[c].command[1]].key]_vars

\* the flagged command was run and recorded
C17_Witness ==
    /\ finished.pc = "returned"
    /\ finished.command # None
    /\ commands[finished.command[1]].requires_confirmation
    /\ finished.executions = 1
    /\ state.last_commands # <<>>
    /\ state.last_commands[Len(state.last_commands)].command = "zeta"

\* C18: argument extraction is invoked exactly when the selected command has
\* ai_parsing set, after the selection and before the execution, and what
\* it returns (the raw text and the command key) is what the execution
\* engine is given; a command without the flag is executed without
\* extracted arguments, and a call that ends for no match or for ambiguity
\* never invokes the extraction.
C18_ExtractionWhenFlagged ==
    [][\A c \in CallIds :
        /\ Started(c) =>
               IF calls'[c].pc = "done"
               THEN finished'.parsed_args = None /\ finished'.executions = 0
               ELSE /\ calls'[c].parsed_args = None
                    /\ calls'[c].command # None
                    /\ calls'[c].pc =
                           (IF commands[calls'[c].command[1]].ai_parsing
                            THEN "extract" ELSE "execute")
        /\ (calls[c].pc = "extract" /\ calls'[c] # calls[c]) =>
               /\ commands[calls[c].command[1]].ai_parsing
               /\ calls[c].executions = 0
               /\ calls'[c].pc = "execute"
               /\ calls'[c].command = calls[c].command
               /\ calls'[c].parsed_args =
                      Some([raw_input |-> calls[c].user_input,
                            command_key |->
                                commands[calls[c].command[1]].key])
        /\ (calls[c].pc = "execute" /\ calls'[c] # calls[c]) =>
               /\ finished'.parsed_args = calls[c].parsed_args
               /\ (finished'.parsed_args # None)
                      = commands[calls[c].command[1]].ai_parsing
               /\ finished'.parsed_args # None =>
                      finished'.parsed_args[1].raw_input
                          = finished'.user_input]_vars

\* a command with ai_parsing was run on the arguments extracted from a text
\* with a capital letter
C18_Witness ==
    /\ finished.pc = "returned"
    /\ finished.executions = 1
    /\ finished.parsed_args =
           Some([raw_input |-> <<"A", "b", "c">>, command_key |-> "alpha"])

\* C19: candidates with equal scores are returned by find_matches in catalog
\* (insertion) order; among equal-scored leaders the earliest-registered one
\* is first.
C19_TiesInCatalogOrder ==
    matched.done =>
        LET m == matched.matches
            nominal(i) == NominalScore(commands[m[i].cmd], matched.user_input)
        IN  /\ \A i, j \in 1..Len(m) :
                   (i < j /\ (m[i].score = m[j].score
                              \/ nominal(i) = nominal(j)))
                       => m[i].cmd < m[j].cmd
            /\ \A j \in 2..Len(m) :
                   m[j].score = m[1].score => m[1].cmd < m[j].cmd

\* two commands hit a text with a capital letter with the same score, above
\* 1.0
C19_Witness ==
    /\ matched.done
    /\ Len(matched.matches) = 2
    /\ matched.matches[1].score = matched.matches[2].score
    /\ FLess(F_1_0, matched.matches[1].score)
    /\ matched.matches[1].cmd = 1
    /\ \E n \in 1..Len(matched.user_input) : matched.user_input[n] = "A"

\* C20: when the session file is absent or is not a valid document at open,
\* the store starts from the default state (mode general, empty history,
\* aliases and preferences) instead of failing, and the operations that
\* follow (current_mode, dispatch, get_stats) work on that state.
C20_DefaultsOnBadFile ==
    startup.opened \in {"missing", "corrupt", "undecodable"} =>
        /\ startup.error = None
        /\ state.session_start = 0
        /\ state.aliases = <<>>
        /\ state.user_preferences = <<>>
        /\ state.last_commands = appended
        /\ state.current_mode \in Modes
        /\ (clock = 1 /\ disk.kind # "doc") => state.current_mode = "general"
        /\ finished.pc # "raised"
        /\ ~get_stats(state).raised
        /\ get_stats(state).result.total_commands = Len(appended)

\* C21: the command catalog is unchanged by every dispatch, on every path
\* and under any interleaving of dispatches in flight: the commands and the
\* key, name, keywords, environment, declared args, modes and flags of each
\* are those the catalog was loaded with.
C21_CatalogUnchanged ==
    /\ Len(commands) = Len(CommandPool)
    /\ \A k \in 1..Len(commands) :
           /\ commands[k].key = CommandPool[k].key
           /\ commands[k].name = CommandPool[k].name
           /\ commands[k].keywords = CommandPool[k].keywords
           /\ commands[k].environment = CommandPool[k].environment
           /\ commands[k].args = CommandPool[k].args
           /\ commands[k].modes = CommandPool[k].modes
           /\ commands[k].requires_confirmation
                  = CommandPool[k].requires_confirmation
           /\ commands[k].ai_parsing = CommandPool[k].ai_parsing

\* a command has been executed with extracted arguments, which were added
\* to its argument vector, and recorded while another dispatch was waiting
\* for its child
C21_Witness ==
    /\ finished.pc = "returned"
    /\ finished.launch # None
    /\ finished.parsed_args # None
    /\ Len(BuildVector(commands[finished.command[1]],
                       finished.parsed_args).vector) > 2
    /\ \E c \in CallIds : calls[c].pc = "execute"
    /\ Len(appended) >= 1

\* a record of the document names a value outside its enumeration
NamesUnknown(file) ==
    \E i \in 1..Len(file.records) :
        LET rec == file.records[i]
            modes == GetField(rec, "modes", <<>>)
        IN  \/ rec.category \notin Categories
            \/ rec.environment \notin Environments
            \/ \E m \in 1..Len(modes) : modes[m] \notin Modes

\* C22: loading a registry document in which any record names a category,
\* environment or mode outside its enumeration fails with ValueError and
\* the caller gets no catalog, not even one of the records that came before
\* the bad one; loading a missing file does not fail: it gives the catalog
\* of the default registry.
C22_UnknownEnumFailsLoad ==
    /\ (registry.pc \in {"loading", "built", "raised"}
           /\ registry.opened.kind = "doc" /\ NamesUnknown(registry.opened))
        => /\ registry.pc # "built"
           /\ commands = <<>>
           /\ registry.pc = "loading" =>
                  registry.next <= Len(registry.opened.records)
           /\ registry.pc = "raised" =>
                  /\ registry.error # None
                  /\ registry.error[1][1] = "ValueError"
    /\ (registry.pc \in {"built", "raised"}
           /\ registry.opened.kind = "missing")
        => /\ registry.pc = "built"
           /\ registry.error = None
           /\ Len(commands) = 2
           /\ commands[1].key = "voicemeeter_control"
           /\ commands[2].key = "app_launcher"

\* the second record of the document named an unknown mode: the first had
\* been stored when the load failed, and the caller holds no catalog
C22_Witness ==
    /\ registry.pc = "raised"
    /\ registry.next = 2
    /\ Len(registry.commands) = 1
    /\ registry.error = Some(<<"ValueError", "AssistantMode", "gaming">>)
    /\ commands = <<>>

\* the command of a call is the first of the matches it found when it was
\* invoked, and is offered in the mode it read then
ChosenAtInvocation(call) ==
    /\ call.command # None
    /\ call.mode \in Modes
    /\ call.matches # <<>>
    /\ call.command[1] = call.matches[1].cmd
    /\ Offered(commands[call.command[1]], call.mode)
    /\ NominalScore(commands[call.command[1]], call.user_input) > 0

\* C23: the command a dispatch executes and records is the one selected in
\* the mode that was current when the dispatch was invoked, whatever
\* set_mode did while the dispatch was suspended: a call waiting for its
\* extraction or its child holds that command, and the entry a call has
\* recorded names it. (That it can be recorded while the current mode is
\* outside its declared modes is the state C23_Witness describes.)
C23_ModeAtInvocation ==
    /\ \A c \in CallIds :
           calls[c].pc \in {"extract", "execute"}
           => ChosenAtInvocation(calls[c])
    /\ (finished.launch # None /\ appended # <<>>)
       => /\ ChosenAtInvocation(finished)
          /\ appended[Len(appended)].command
                 = commands[finished.command[1]].key
          /\ appended[Len(appended)].input = finished.user_input
          /\ state.last_commands[Len(state.last_commands)]
                 = appended[Len(appended)]

\* a command declared for some modes was executed and recorded after
\* set_mode had moved the session to a mode outside them
C23_Witness ==
    /\ finished.pc = "returned"
    /\ finished.launch # None
    /\ commands[finished.command[1]].modes # {}
    /\ state.current_mode \in Modes
    /\ state.current_mode # finished.mode
    /\ state.current_mode \notin commands[finished.command[1]].modes
    /\ appended # <<>>
    /\ appended[Len(appended)].command = commands[finished.command[1]].key
    /\ find_matches(commands, finished.user_input, state.current_mode) = <<>>

\* call c appends its history entry in this step, and the mode or the alias
\* table was set since the session was opened on its defaults: the mode is
\* not the one the call was invoked in, or an alias is in the table
RecordsAfterSetting(c) ==
    /\ calls[c].pc = "execute"
    /\ calls'[c].pc = "done"
    /\ appended' # appended
    /\ (state.current_mode # calls[c].mode \/ DOMAIN state.aliases # {})

\* C24: a set_mode or add_alias that ran while a dispatch was waiting for
\* its child is still in effect after that dispatch appends its history
\* entry, in memory and in the session file: the step that records leaves
\* the mode and the alias table in memory as they were, and the document in
\* the file after it holds that mode and that alias table.
C24_SettingsSurviveRecord ==
    [][\A c \in CallIds :
        RecordsAfterSetting(c)
        => /\ state'.current_mode = state.current_mode
           /\ state'.aliases = state.aliases
           /\ disk'.kind = "doc"
           /\ disk'.doc.current_mode = state.current_mode
           /\ disk'.doc.aliases = state.aliases]_vars

\* C25: with several dispatches in flight, history entries appear in the
\* order in which the executions complete, not in the order of the calls:
\* the history changes only in the step in which the child of a call is
\* done, and then the entry of that call is put at the end; the entries
\* already there keep their content and their order, and one leaves only
\* from the front, when the history is full.
C25_CompletionOrder ==
    [][state'.last_commands # state.last_commands
       => \E c \in CallIds :
              LET before == state.last_commands
                  after == state'.last_commands
                  dropped == Len(before) + 1 - Len(after)
              IN  /\ calls[c].pc = "execute"
                  /\ calls'[c].pc = "done"
                  /\ after # <<>>
                  /\ after[Len(after)].input = calls[c].user_input
                  /\ after[Len(after)].command
                         = commands[calls[c].command[1]].key
                  /\ after[Len(after)].timestamp = clock
                  /\ \A i \in 1..(Len(after) - 1) :
                         after[Len(after)].timestamp > after[i].timestamp
                  /\ dropped \in {0, 1}
                  /\ dropped = 1 <=> Len(before) >= HistoryLimit
                  /\ \A i \in 1..(Len(after) - 1) :
                         after[i] = before[i + dropped]]_vars

\* the second call made has its entry at the end of a full history, whose
\* oldest entry left for it, while the first call made, of another text,
\* is still waiting for its child
C25_Witness ==
    /\ calls[1].pc = "execute"
    /\ calls[2].pc = "done"
    /\ finished.launch # None
    /\ finished.user_input # calls[1].user_input
    /\ Len(appended) = 1
    /\ loaded = HistoryLimit
    /\ Len(state.last_commands) = HistoryLimit
    /\ state.last_commands[HistoryLimit].input = finished.user_input
    /\ state.last_commands[1] = Prefill(HistoryLimit)[2]

\* the step is one of dispatch (a call moves), of a query (an answer is
\* given), or else of set_mode or add_alias
DispatchStep == calls' # calls
QueryStep == listed' # listed \/ answered' # answered

\* the alias table after the step is the one before with one alias added or
\* overwritten
OneAliasSet ==
    \E alias \in DOMAIN state'.aliases :
        /\ DOMAIN state'.aliases = DOMAIN state.aliases \cup {alias}
        /\ \A other \in DOMAIN state.aliases \ {alias} :
               state'.aliases[other] = state.aliases[other]

\* C26: each operation changes only its own part of the session state.
\* dispatch changes nothing but the history (never the mode, the aliases,
\* the preferences or session_start); get_available_commands,
\* get_command_history and get_stats change nothing; set_mode changes only
\* current_mode and add_alias only the alias table, by the one alias.
C26_OwnPartOnly ==
    [][/\ DispatchStep
          => /\ state'.current_mode = state.current_mode
             /\ state'.aliases = state.aliases
             /\ state'.user_preferences = state.user_preferences
             /\ state'.session_start = state.session_start
       /\ QueryStep => (state' = state /\ disk' = disk)
       /\ (~DispatchStep /\ ~QueryStep)
          => /\ state'.last_commands = state.last_commands
             /\ state'.user_preferences = state.user_preferences
             /\ state'.session_start = state.session_start
             /\ \/ state'.aliases = state.aliases
                \/ /\ state'.current_mode = state.current_mode
                   /\ OneAliasSet]_vars

\* on one session a dispatch has recorded, set_mode has changed the mode,
\* add_alias has set and overwritten aliases, and the three queries have
\* answered: the entry the session started with, the preferences and
\* session_start are as loaded
C26_Witness ==
    /\ loaded = 1
    /\ Len(appended) >= 1
    /\ state.last_commands = Prefill(1) \o appended
    /\ state.current_mode = "study"
    /\ DOMAIN state.aliases = FrameAliases
    /\ state.aliases["play"] = "beta"
    /\ listed.done
    /\ listed.raised = None
    /\ answered.op = "get_stats"
    /\ answered.answer[1].result.total_commands = Len(state.last_commands)
    /\ state.user_preferences = <<>>
    /\ state.session_start = StoredDoc("general", 1).doc.session_start

====
